---------------------------- MODULE Spec2Model ----------------------------
(***************************************************************************)
(* A model of the MAT material decoder of blender-sith                     *)
(* (src/sith/material/mat.py): the header / record / mipmap readers, the   *)
(* two pixel-buffer decoders and the importMat orchestration.              *)
(*                                                                         *)
(* The file is a sequence of bytes and the stream a position in it; every  *)
(* struct layout is decoded little-endian from the bytes read.  32-bit     *)
(* pixel words are sequences of 32 bits (least significant first), so the  *)
(* shifts, masks and wrap-around of numpy's uint32 are kept exactly.       *)
(* A float obtained as byte * (1.0 / 255.0) is written <<byte, 255>>.      *)
(***************************************************************************)
EXTENDS Integers, Sequences, FiniteSets, TLC

VARIABLES
    file,       \* the bytes of the file on disk
    src,        \* the values the file was encoded from (what the file "means")
    cmp,        \* the ColorMap argument: [present, len, seed]
    handle,     \* "none" | "open" | "closed": the handle importMat opens
    pos,        \* stream position of the handle
    pc,         \* position of the running call
    err,        \* the exception that ended the call, "" when none
    h,          \* <<>> or <<MatHeader>>
    records,    \* the list _read_records returned
    i,          \* loop index of the mipmap / color texture loop
    mm,         \* <<>> or <<the Mipmap _read_mipmap returned last>>
    mmh,        \* <<>> or <<[start, hdr]>>: the MatMipmapHeader read last, and where
    shortRead,  \* some f.read() of the call returned fewer bytes than asked
    bpy,        \* bpy.data as the caller sees it
    bpy0,       \* bpy.data when the call started
    pd,         \* decoder input: the raw pixel bytes
    dim,        \* decoder input: <<width, height>>
    ci,         \* decoder input: the ColorFormat
    tcol,       \* decoder input: <<>> (None) or <<transparent_color>>
    out         \* decoder output: <<>> or <<flat float array>>

vars == <<file, src, cmp, handle, pos, pc, err, h, records, i, mm, mmh,
          shortRead, bpy, bpy0, pd, dim, ci, tcol, out>>

importVars == <<file, src, handle, pos, h, records, i, mm, mmh,
                shortRead, bpy, bpy0>>

decodeVars == <<pd, dim, ci, tcol, out>>

-----------------------------------------------------------------------------
(* Program constants                                                       *)

required_version  == 50
color_tex_width   == 32
color_tex_height  == 32
max_texture_slots == 18

file_magic == <<77, 65, 84, 32>>          \* b'MAT '

MatType_Color   == 0
MatType_Texture == 2

ColorMode_Indexed == 0
ColorMode_RGB     == 1
ColorMode_RGBA    == 2

mh_serf_size  == 20     \* Struct('<4siIii').size
cf_serf_size  == 56     \* Struct('<14I').size
mcr_serf_size == 24     \* Struct('<6i').size
mtr_serf_size == 40     \* Struct('<10i').size
mmm_serf_size == 24     \* Struct('<6i').size

-----------------------------------------------------------------------------
(* Bounds of the model                                                     *)

MaxDim    == 2      \* mipmap and decoder widths / heights are 1..MaxDim
MaxLevels == 2      \* mipmap level counts are 0..MaxLevels
MaxCut    == 3      \* files are also cut up to MaxCut bytes before their end
BigCount  == 25     \* the largest record count (above the slot cap)

-----------------------------------------------------------------------------
(* Little-endian struct packing                                            *)

Min(a, b) == IF a < b THEN a ELSE b

RECURSIVE Concat(_)
Concat(ss) == IF ss = <<>> THEN <<>> ELSE Head(ss) \o Concat(Tail(ss))

\* struct 'I' of a value in 0 .. 2^31-1, struct 'i' of a value in -2^31 .. 2^31-1
PackU32(v) ==
    <<v % 256, (v \div 256) % 256, (v \div 65536) % 256, (v \div 16777216) % 256>>

PackI32(v) ==
    IF v >= 0 THEN PackU32(v)
    ELSE LET m == (v + 1073741824) + 1073741824     \* v + 2^31
         IN  <<m % 256, (m \div 256) % 256, (m \div 65536) % 256,
               ((m \div 16777216) % 256) + 128>>

\* The files of the model hold no unsigned field above 2^31-1.
UnpackU32_BigEndian(b) == b[4] + 256 * b[3] + 65536 * b[2] + 16777216 * b[1]

UnpackU32(b) == b[1] + 256 * b[2] + 65536 * b[3] + 16777216 * b[4]

UnpackI32(b) ==
    IF b[4] < 128 THEN UnpackU32(b)
    ELSE ((b[1] + 256 * b[2] + 65536 * b[3] + 16777216 * (b[4] - 128))
            - 1073741824) - 1073741824

Chunk(b, k) == SubSeq(b, 4 * k + 1, 4 * k + 4)   \* the k-th 32-bit field, k from 0

UnpackInts(b, n)  == [k \in 1..n |-> UnpackI32(Chunk(b, k - 1))]
UnpackUInts(b, n) == [k \in 1..n |-> UnpackU32(Chunk(b, k - 1))]

PackInts(vs)  == Concat([k \in 1..Len(vs) |-> PackI32(vs[k])])
PackUInts(vs) == Concat([k \in 1..Len(vs) |-> PackU32(vs[k])])

\* f.read(n) at position p: the bytes returned (fewer than n at the end of file)
Read(p, n) == SubSeq(file, p + 1, Min(p + n, Len(file)))

-----------------------------------------------------------------------------
(* ColorFormat and MatHeader                                               *)

CfFields == <<"color_mode", "bpp", "red_bpp", "green_bpp", "blue_bpp",
              "red_shl", "green_shl", "blue_shl",
              "red_shr", "green_shr", "blue_shr",
              "alpha_bpp", "alpha_shl", "alpha_shr">>

\* ColorFormat._make(values): the 14 values in field order
ColorFormat(v) ==
    [color_mode |-> v[1],  bpp       |-> v[2],
     red_bpp    |-> v[3],  green_bpp |-> v[4],  blue_bpp |-> v[5],
     red_shl    |-> v[6],  green_shl |-> v[7],  blue_shl |-> v[8],
     red_shr    |-> v[9],  green_shr |-> v[10], blue_shr |-> v[11],
     alpha_bpp  |-> v[12], alpha_shl |-> v[13], alpha_shr |-> v[14]]

CfValues(cf) == [k \in 1..14 |-> cf[CfFields[k]]]

\* MatHeader(*mh_serf.unpack(rh), cf) with mh_serf = '<4siIii'
MatHeader(rh, cf) ==
    [magic         |-> SubSeq(rh, 1, 4),
     version       |-> UnpackI32(SubSeq(rh, 5, 8)),
     type          |-> UnpackU32(SubSeq(rh, 9, 12)),
     record_count  |-> UnpackI32(SubSeq(rh, 13, 16)),
     texture_count |-> UnpackI32(SubSeq(rh, 17, 20)),
     color_info    |-> cf]

\* The checks of _read_header, in the order of the code: "" when all pass.
BppCheck_None(bpp) == FALSE

\* line 143: the header is refused when this holds
BppCheck(bpp) == bpp % 8 # 0 /\ ~(8 <= bpp /\ bpp <= 32)

HeaderError_NoCountCheck(hh) ==
    IF hh.magic # file_magic THEN "Invalid MAT file"
    ELSE IF hh.version # required_version THEN "Invalid MAT file version"
    ELSE IF hh.type # MatType_Color /\ hh.type # MatType_Texture
        THEN "Invalid MAT file type"
    ELSE IF hh.record_count <= 0 THEN "MAT file contains no record(s)"
    ELSE IF ~(ColorMode_Indexed <= hh.color_info.color_mode
              /\ hh.color_info.color_mode <= ColorMode_RGBA)
        THEN "Invalid color mode"
    ELSE IF BppCheck(hh.color_info.bpp) THEN "Invalid color depth"
    ELSE ""

HeaderError(hh) ==
    IF hh.magic # file_magic THEN "Invalid MAT file"
    ELSE IF hh.version # required_version THEN "Invalid MAT file version"
    ELSE IF hh.type # MatType_Color /\ hh.type # MatType_Texture
        THEN "Invalid MAT file type"
    ELSE IF hh.type = MatType_Texture /\ hh.record_count # hh.texture_count
        THEN "MAT file record and texture count missmatch"
    ELSE IF hh.record_count <= 0 THEN "MAT file contains no record(s)"
    ELSE IF ~(ColorMode_Indexed <= hh.color_info.color_mode
              /\ hh.color_info.color_mode <= ColorMode_RGBA)
        THEN "Invalid color mode"
    ELSE IF BppCheck(hh.color_info.bpp) THEN "Invalid color depth"
    ELSE ""

-----------------------------------------------------------------------------
(* The files of the model: what a file is encoded from, and its bytes       *)

\* The channel layout that goes with a bit depth (the fields other than
\* color_mode, bpp and alpha_bpp): 8/8/8/8 at byte positions for 32 and 24
\* bits, 5/6/5 or 5/5/5 + 1 for 16 bits.
CfFor(mode, bpp, abpp) ==
    IF bpp = 16
    THEN IF abpp = 0
         THEN ColorFormat(<<mode, bpp, 5, 6, 5, 11, 5, 0, 3, 2, 3, 0, 0, 0>>)
         ELSE ColorFormat(<<mode, bpp, 5, 5, 5, 11, 6, 1, 3, 3, 3, abpp, 0, 0>>)
    ELSE ColorFormat(<<mode, bpp, 8, 8, 8, 0, 8, 16, 0, 0, 0, abpp, 24, 0>>)

ColorRecordOf(seed, k) == <<0, (seed + 7 * k) % 256, 1065353216, 0, -1, k>>

TextureRecordOf(seed, k) == <<8, seed, 1065353216, 0, -1, 0, 4, -2147483647, 0, k>>

PixelByte(seed, k, j) == (seed + 16 * k + 85 * j) % 256

\* The size of one pixel level in the file format: width*height*bpp/8 bytes
LevelBytes(w, hgt, bpp) == (w * hgt * bpp) \div 8

MipmapOf(d, k) ==
    [hdr |-> <<d.w, d.hgt, 0, 0, d.seed % 2, d.levels>>,
     px  |-> [j \in 1..(d.levels * LevelBytes(d.w, d.hgt, d.color_info.bpp))
                |-> PixelByte(d.seed, k, j)]]

NRecords(d) ==
    IF d.type \in {MatType_Color, MatType_Texture} /\ d.record_count > 0
    THEN d.record_count ELSE 0

NMipmaps(d) ==
    IF d.type = MatType_Texture /\ d.texture_count > 0 THEN d.texture_count ELSE 0

RecordsOf(d) ==
    [k \in 1..NRecords(d) |->
        IF d.type = MatType_Color THEN ColorRecordOf(d.seed, k - 1)
                                  ELSE TextureRecordOf(d.seed, k - 1)]

MipmapsOf(d) == [k \in 1..NMipmaps(d) |-> MipmapOf(d, k - 1)]

EncodeHeader(d) ==
    d.magic \o PackI32(d.version) \o PackU32(d.type) \o PackI32(d.record_count)
        \o PackI32(d.texture_count) \o PackUInts(CfValues(d.color_info))

EncodeRecords(d) == Concat([k \in 1..NRecords(d) |-> PackInts(RecordsOf(d)[k])])

EncodeMipmap(m) == PackInts(m.hdr) \o m.px

EncodeMipmaps(d) == Concat([k \in 1..NMipmaps(d) |-> EncodeMipmap(MipmapsOf(d)[k])])

EncodeFile(d) == EncodeHeader(d) \o EncodeRecords(d) \o EncodeMipmaps(d)

-----------------------------------------------------------------------------
(* The ColorMap (sith/material/cmp.py) and the normalised pixel values      *)

NoCmp == [present |-> FALSE, len |-> 0, seed |-> 0]

\* cmp.palette[k] for 0 <= k < len(cmp.palette): an (r, g, b) byte triple
PaletteColor(c, k) ==
    IF c.seed = 0 /\ k = 0 THEN <<255, 0, 0>>
    ELSE IF c.seed = 0 /\ k = 1 THEN <<0, 255, 0>>
    ELSE <<(k + c.seed) % 256, (3 * k + c.seed) % 256, 255 - (k % 256)>>

\* Python sequence indexing: a negative index counts from the end
InRange(c, k) == -c.len <= k /\ k < c.len

PaletteAt(c, k) == PaletteColor(c, IF k < 0 THEN k + c.len ELSE k)

\* byte * _linear_coef, with _linear_coef = 1.0 / 255.0
Linear(b) == <<b, 255>>

Pixel(r, g, b, a) == [red |-> r, green |-> g, blue |-> b, alpha |-> a]

-----------------------------------------------------------------------------
(* bpy.data: the material of this file, the images and the textures         *)

NewImage(name, width, height) ==
    [name |-> name, width |-> width, height |-> height, has_data |-> FALSE,
     pixels |-> <<>>, generated_type |-> "BLANK"]

NewMaterial ==
    [use_nodes |-> FALSE, nodes |-> <<>>, links |-> <<>>,
     blend_method |-> "OPAQUE", alpha_threshold |-> 5, base_color |-> "default",
     texture_slots |-> <<>>]

EmptyBpy == [mat |-> <<>>, images |-> {}, textures |-> <<>>]

\* bpy.data after an earlier import of the same file name
LoadedBpy ==
    [mat |-> << [use_nodes |-> TRUE,
                 nodes |-> <<"ShaderNodeBsdfPrincipled", "ShaderNodeOutputMaterial",
                             "ShaderNodeTexImage">>,
                 links |-> << <<"BSDF", "Surface">>, <<"Color", "Base Color">> >>,
                 blend_method |-> "OPAQUE", alpha_threshold |-> 0,
                 base_color |-> "white", texture_slots |-> << -1 >>] >>,
     images |-> {[name |-> 0, width |-> 4, height |-> 4, has_data |-> TRUE,
                  pixels |-> <<>>, generated_type |-> "UV_GRID"]},
     textures |-> << [name |-> -1, image |-> 0, use_preview_alpha |-> FALSE] >>]

\* pixdata: [kind |-> "none" | "pixels" | "flat", data |-> ...]: None, a list of
\* Pixel tuples, or a flat array of floats.
NoPixdata == [kind |-> "none", data |-> <<>>]

FlattenPixels(px) ==
    Concat([k \in 1..Len(px) |-> <<px[k].red, px[k].green, px[k].blue, px[k].alpha>>])

\* _mat_add_new_texture: [raised, bpy]; the image is made (or scaled) before the
\* pixel list is flattened, so it stays when the flattening raises.
AddNewTextureBody(b, width, height, texIdx, pixdata, hasTransparency) ==
    LET old    == {im \in b.images : im.name = texIdx}
        img    == IF old = {} THEN NewImage(texIdx, width, height)
                  ELSE LET o == CHOOSE im \in old : TRUE
                       IN  IF o.has_data
                           THEN [o EXCEPT !.width = width, !.height = height]
                           ELSE o
        img2   == IF pixdata.kind = "none"
                  THEN [img EXCEPT !.generated_type = "UV_GRID",
                                   !.width = width, !.height = height]
                  ELSE [img EXCEPT !.pixels = <<IF pixdata.kind = "pixels"
                                                THEN FlattenPixels(pixdata.data)
                                                ELSE pixdata.data>>,
                                   !.has_data = TRUE]
        m      == b.mat[1]
        nodes1 == IF \E k \in 1..Len(m.nodes) : m.nodes[k] = "ShaderNodeBsdfPrincipled"
                  THEN m.nodes ELSE Append(m.nodes, "ShaderNodeBsdfPrincipled")
        m2     == [m EXCEPT
                     !.nodes = nodes1 \o <<"ShaderNodeTexImage", "ShaderNodeTexCoord",
                                           "ShaderNodeMapping">>,
                     !.links = m.links \o << <<"UV", "Vector">>, <<"Vector", "Vector">>,
                                            <<"Color", "Base Color">> >>
                                 \o (IF hasTransparency THEN << <<"Alpha", "Alpha">> >>
                                     ELSE <<>>),
                     !.blend_method = IF hasTransparency THEN "BLEND" ELSE @]
    IN  [raised |-> FALSE,
         bpy    |-> [mat      |-> <<m2>>,
                     images   |-> (b.images \ old) \cup {img2},
                     textures |-> Append(b.textures,
                                        [name |-> texIdx, image |-> texIdx,
                                         use_preview_alpha |-> hasTransparency])]]

AddNewTexture(b, width, height, texIdx, pixdata, hasTransparency) ==
    LET old == {im \in b.images : im.name = texIdx}
        img == IF old = {} THEN NewImage(texIdx, width, height)
               ELSE LET o == CHOOSE im \in old : TRUE
                    IN  IF o.has_data
                        THEN [o EXCEPT !.width = width, !.height = height]
                        ELSE o
    IN  IF pixdata.kind = "flat" /\ Len(pixdata.data) > 0
        THEN \* pixel.red on a float of the flat array: AttributeError
             [raised |-> TRUE,
              bpy    |-> [b EXCEPT !.images = (b.images \ old) \cup {img}]]
        ELSE AddNewTextureBody(b, width, height, texIdx, pixdata,
                                       hasTransparency)

\* _max_cels without the cap of max_texture_slots
_max_cels_NoCap(len) == len

_max_cels(len) == Min(len, max_texture_slots)

-----------------------------------------------------------------------------
(* Initial states: the files, palettes and scenes importMat is run on       *)

BadMagic == <<77, 65, 84, 0>>

Desc(magic, version, type, rc, tc, mode, bpp, abpp, w, hgt, levels, seed) ==
    [magic |-> magic, version |-> version, type |-> type, record_count |-> rc,
     texture_count |-> tc, color_info |-> CfFor(mode, bpp, abpp),
     w |-> w, hgt |-> hgt, levels |-> levels, seed |-> seed]

\* Headers of every kind, each followed by the records and 1x1 mipmaps it announces
BroadDescs ==
    {Desc(m, v, t, rc, tc, cm, bpp, 0, 1, 1, 1, 0) :
        m \in {file_magic, BadMagic}, v \in {required_version, 49}, t \in 0..2,
        rc \in -1..2, tc \in 0..2, cm \in 0..3, bpp \in {0, 7, 8, 12, 32, 33, 40}}

ModeDepths == {<<ColorMode_Indexed, 8>>, <<ColorMode_Indexed, 16>>,
               <<ColorMode_RGB, 16>>, <<ColorMode_RGB, 24>>,
               <<ColorMode_RGBA, 16>>, <<ColorMode_RGBA, 32>>}

\* Valid texture materials with mipmaps of every size and level count.  An
\* indexed file of 16 bits holds one mipmap only: a second one would be read
\* from the middle of the first one's pixel block, with a level count in the
\* millions.
TextureDescs ==
    {d \in {Desc(file_magic, required_version, MatType_Texture, n, n, md[1], md[2],
                 a, w, hgt, lv, sd) :
                n \in 1..2, md \in ModeDepths, a \in 0..1,
                w \in 1..MaxDim, hgt \in 1..MaxDim, lv \in 0..MaxLevels,
                sd \in {0, 201}} :
        d.color_info.color_mode = ColorMode_Indexed /\ d.color_info.bpp # 8
            => d.record_count = 1}

\* Valid color materials
ColorDescs ==
    {Desc(file_magic, required_version, MatType_Color, n, tc, md[1], md[2], a,
          1, 1, 1, sd) :
        n \in 1..2, tc \in {-3, 66000}, md \in ModeDepths, a \in 0..1, sd \in {0, 201}}

\* Materials with more records than texture slots
BigDescs ==
    {Desc(file_magic, required_version, t, n, n, md[1], md[2], 0, 1, 1, 1, 0) :
        t \in {MatType_Color, MatType_Texture},
        n \in {max_texture_slots, max_texture_slots + 1, BigCount},
        md \in {<<ColorMode_Indexed, 8>>, <<ColorMode_RGB, 16>>}}

Cmps == {NoCmp} \cup {[present |-> TRUE, len |-> n, seed |-> 0] : n \in {255, 256}}

RecordsEnd(d) == Len(EncodeHeader(d)) + Len(EncodeRecords(d))

\* The lengths a file is cut to: inside the header, inside the records, inside
\* the first mipmap header, and up to MaxCut bytes before its end.
CutLens(d) ==
    LET full == Len(EncodeFile(d))
    IN  {n \in {0, 19, 20, 75, RecordsEnd(d) - 1, RecordsEnd(d) + 23} : n <= full}
            \cup {n \in 0..full : n >= full - MaxCut}

InitCall(d, n, c, b) ==
    /\ src = d
    /\ file = SubSeq(EncodeFile(d), 1, n)
    /\ cmp = c
    /\ bpy = b
    /\ bpy0 = b
    /\ handle = "none" /\ pos = 0 /\ pc = "start" /\ err = ""
    /\ h = <<>> /\ records = <<>> /\ i = 0 /\ mm = <<>> /\ mmh = <<>>
    /\ shortRead = FALSE
    /\ pd = <<>> /\ dim = <<0, 0>> /\ ci = CfFor(0, 8, 0) /\ tcol = <<>> /\ out = <<>>

Init ==
    \/ \E d \in BroadDescs :
         \E n \in {19, 75, Len(EncodeFile(d))} : InitCall(d, n, NoCmp, EmptyBpy)
    \/ \E d \in TextureDescs \cup ColorDescs :
         \E n \in CutLens(d), c \in Cmps, b \in {EmptyBpy, LoadedBpy} :
            InitCall(d, n, c, b)
    \/ \E d \in BigDescs :
         \E c \in Cmps : InitCall(d, Len(EncodeFile(d)), c, EmptyBpy)

-----------------------------------------------------------------------------
(* importMat, one action per step                                          *)

Raise(kind) == pc' = "raised" /\ err' = kind

\* f = open(filePath, 'rb')
Open ==
    /\ pc = "start"
    /\ handle' = "open" /\ pos' = 0 /\ pc' = "opened"
    /\ UNCHANGED <<file, src, cmp, err, h, records, i, mm, mmh, shortRead,
                   bpy, bpy0>>
    /\ UNCHANGED decodeVars

\* h = _read_header(f)
ReadHeader ==
    /\ pc = "opened"
    /\ LET rh  == Read(pos, mh_serf_size)
           rcf == Read(pos + Len(rh), cf_serf_size)
       IN  /\ pos' = pos + Len(rh) + Len(rcf)
           /\ IF Len(rcf) # cf_serf_size \/ Len(rh) # mh_serf_size
              THEN /\ Raise("struct.error")
                   /\ shortRead' = TRUE
                   /\ h' = h
              ELSE LET hh == MatHeader(rh, ColorFormat(UnpackUInts(rcf, 14)))
                   IN  /\ shortRead' = shortRead
                       /\ IF HeaderError(hh) # ""
                          THEN Raise("ImportError") /\ h' = h
                          ELSE pc' = "header" /\ err' = err /\ h' = <<hh>>
    /\ UNCHANGED <<file, src, cmp, handle, records, i, mm, mmh, bpy, bpy0>>
    /\ UNCHANGED decodeVars

MatColorRecord(v) ==
    [type |-> v[1], color_index |-> v[2], unknown_1 |-> v[3], unknown_2 |-> v[4],
     unknown_3 |-> v[5], unknown_4 |-> v[6]]

MatTextureRecord(v) ==
    [type |-> v[1], color_index |-> v[2], unknown_1 |-> v[3], unknown_2 |-> v[4],
     unknown_3 |-> v[5], unknown_4 |-> v[6], unknown_5 |-> v[7],
     unknown_6 |-> v[8], unknown_7 |-> v[9], cel_idx |-> v[10]]

RecordSize(hh) == IF hh.type = MatType_Color THEN mcr_serf_size ELSE mtr_serf_size

\* records = _read_records(f, h): record_count reads, each unpacked at once
ReadRecords ==
    /\ pc = "header"
    /\ LET hh   == h[1]
           size == RecordSize(hh)
           n    == hh.record_count
           got  == Min(n, (Len(file) - pos) \div size)   \* records read whole
       IN  IF got < n
           THEN /\ pos' = Len(file)
                /\ Raise("struct.error")
                /\ shortRead' = TRUE
                /\ records' = records
           ELSE /\ pos' = pos + n * size
                /\ pc' = "records" /\ err' = err
                /\ shortRead' = shortRead
                /\ records' =
                     [k \in 1..n |->
                        IF hh.type = MatType_Color
                        THEN MatColorRecord(
                                UnpackInts(Read(pos + (k - 1) * size, size), 6))
                        ELSE MatTextureRecord(
                                UnpackInts(Read(pos + (k - 1) * size, size), 10))]
    /\ UNCHANGED <<file, src, cmp, handle, h, i, mm, mmh, bpy, bpy0>>
    /\ UNCHANGED decodeVars

\* The material is looked up or made, its node tree is rebuilt, and (for a
\* texture material) its blend mode is set: importMat lines 330-360.
SetupMaterial ==
    /\ pc = "records"
    /\ LET reload == bpy.mat # <<>>
           m0     == IF reload THEN [bpy.mat[1] EXCEPT !.texture_slots = <<>>]
                     ELSE NewMaterial
           slots  == IF reload THEN bpy.mat[1].texture_slots ELSE <<>>
           gone   == {slots[k] : k \in 1..Len(slots)}
           IsKept(t) == t.name \notin gone
           use_transparency == h[1].color_info.alpha_bpp > 0
           m1     == [m0 EXCEPT
                        !.use_nodes = TRUE,
                        !.nodes = <<"ShaderNodeBsdfPrincipled",
                                    "ShaderNodeOutputMaterial">>,
                        !.links = << <<"BSDF", "Surface">> >>]
           m2     == IF h[1].type = MatType_Color THEN m1
                     ELSE [m1 EXCEPT
                             !.blend_method = IF use_transparency THEN "BLEND"
                                              ELSE "OPAQUE",
                             !.alpha_threshold = 0]
       IN  bpy' = [bpy EXCEPT !.mat = <<m2>>,
                              !.textures = SelectSeq(bpy.textures, IsKept)]
    /\ pc' = IF h[1].type = MatType_Color THEN "color" ELSE "texture"
    /\ i' = 0
    /\ UNCHANGED <<file, src, cmp, handle, pos, err, h, records, mm, mmh,
                   shortRead, bpy0>>
    /\ UNCHANGED decodeVars

\* np.full((color_tex_height, color_tex_width, 4), rgba).flatten() * _linear_coef
ColorPixmap(rgba) ==
    [kind |-> "flat",
     data |-> [k \in 1..(color_tex_height * color_tex_width * 4) |->
                 Linear(rgba[((k - 1) % 4) + 1])]]

\* One turn of the loop of _make_color_textures
MakeColorTexture ==
    /\ pc = "color"
    /\ i < _max_cels(Len(records))
    /\ LET r == records[i + 1]
       IN  IF cmp.present /\ ~InRange(cmp, r.color_index)
           THEN Raise("IndexError") /\ bpy' = bpy /\ i' = i
           ELSE LET pixmap == IF cmp.present
                              THEN ColorPixmap(PaletteAt(cmp, r.color_index) \o <<255>>)
                              ELSE NoPixdata
                    res    == AddNewTexture(bpy, color_tex_width, color_tex_height,
                                            i, pixmap, FALSE)
                IN  /\ bpy' = res.bpy
                    /\ IF res.raised
                       THEN Raise("AttributeError") /\ i' = i
                       ELSE pc' = pc /\ err' = err /\ i' = i + 1
    /\ UNCHANGED <<file, src, cmp, handle, pos, h, records, mm, mmh, shortRead, bpy0>>
    /\ UNCHANGED decodeVars

MatMipmapHeader(v) ==
    [width |-> v[1], height |-> v[2], transparent |-> v[3], unknown_1 |-> v[4],
     transparent_color_num |-> v[5], levels |-> v[6]]

\* One pixel level of an indexed mipmap: a Pixel per index byte, in stored order
LevelPixels(c, bytes) ==
    [k \in 1..Len(bytes) |->
        LET p == PaletteAt(c, bytes[k])
        IN  Pixel(Linear(p[1]), Linear(p[2]), Linear(p[3]), Linear(255))]

\* The bytes _read_mipmap reads after the mipmap header
MipmapPixelBytes(mh, cf) ==
    IF cf.color_mode = ColorMode_Indexed /\ mh.levels > 0
    THEN mh.levels * (mh.width * mh.height)
    ELSE 0

\* mm = _read_mipmap(f, h.color_info, cmp)
ReadMipmap ==
    /\ pc = "texture"
    /\ i < _max_cels(h[1].texture_count)
    /\ LET rh    == Read(pos, mmm_serf_size)
           cf    == h[1].color_info
           start == pos + mmm_serf_size
       IN  IF Len(rh) # mmm_serf_size
           THEN /\ pos' = pos + Len(rh)
                /\ Raise("struct.error")
                /\ shortRead' = TRUE
                /\ mm' = mm /\ mmh' = mmh
           ELSE LET mh == MatMipmapHeader(UnpackInts(rh, 6))
                    wh == mh.width * mh.height
                    nb == MipmapPixelBytes(mh, cf)
                IN  /\ mmh' = <<[start |-> pos, hdr |-> mh]>>
                    /\ IF cf.color_mode = ColorMode_Indexed
                          /\ (~cmp.present \/ cmp.len < 256)
                       THEN /\ pos' = start
                            /\ Raise("ImportError")
                            /\ shortRead' = shortRead
                            /\ mm' = mm
                       ELSE /\ pos' = Min(start + nb, Len(file))
                            /\ pc' = "mipmap" /\ err' = err
                            /\ shortRead' = (shortRead \/ start + nb > Len(file))
                            /\ mm' = <<[width  |-> mh.width,
                                        height |-> mh.height,
                                        color_info |-> cf,
                                        pixel_data_array |->
                                          IF cf.color_mode = ColorMode_Indexed
                                          THEN [isNone |-> FALSE,
                                                levels |->
                                                  [k \in 1..(IF mh.levels > 0
                                                             THEN mh.levels ELSE 0) |->
                                                     LevelPixels(cmp,
                                                        Read(Min(start + (k - 1) * wh,
                                                                 Len(file)), wh))]]
                                          ELSE [isNone |-> TRUE, levels |-> <<>>]]>>
    /\ UNCHANGED <<file, src, cmp, handle, h, records, i, bpy, bpy0>>
    /\ UNCHANGED decodeVars

\* _mat_add_new_texture(mat, mm.width, mm.height, i, first level or None, ...)
AddMipmapTexture ==
    /\ pc = "mipmap"
    /\ LET m       == mm[1]
           pda     == m.pixel_data_array
           pixdata == IF ~pda.isNone /\ Len(pda.levels) > 0
                      THEN [kind |-> "pixels", data |-> pda.levels[1]]
                      ELSE NoPixdata
           res     == AddNewTexture(bpy, m.width, m.height, i, pixdata,
                                    h[1].color_info.alpha_bpp > 0)
       IN  /\ bpy' = res.bpy
           /\ IF res.raised
              THEN Raise("AttributeError") /\ i' = i
              ELSE pc' = "texture" /\ err' = err /\ i' = i + 1
    /\ UNCHANGED <<file, src, cmp, handle, pos, h, records, mm, mmh, shortRead, bpy0>>
    /\ UNCHANGED decodeVars

\* The base colour is reset and the material returned: lines 367-368
Finish ==
    /\ \/ pc = "color" /\ i = _max_cels(Len(records))
       \/ pc = "texture" /\ i = _max_cels(h[1].texture_count)
    /\ bpy' = [bpy EXCEPT !.mat = <<[bpy.mat[1] EXCEPT !.base_color = "white"]>>]
    /\ pc' = "done"
    /\ UNCHANGED <<file, src, cmp, handle, pos, err, h, records, i, mm, mmh,
                   shortRead, bpy0>>
    /\ UNCHANGED decodeVars

Next ==
    \/ Open
    \/ ReadHeader
    \/ ReadRecords
    \/ SetupMaterial
    \/ MakeColorTexture
    \/ ReadMipmap
    \/ AddMipmapTexture
    \/ Finish

Spec == Init /\ [][Next]_vars

-----------------------------------------------------------------------------
(* Properties of _read_header                                              *)

HeaderStageOver == pc \notin {"start", "opened"}

HeaderBytesComplete == Len(file) >= 76

\* What the file was encoded from has a defect the header validation names
SrcHeaderBad ==
    \/ src.magic # <<77, 65, 84, 32>>
    \/ src.version # 50
    \/ src.type \notin {0, 2}
    \/ (src.type = 2 /\ src.record_count # src.texture_count)
    \/ src.record_count <= 0
    \/ src.color_info.color_mode \notin {0, 1, 2}
    \/ (src.color_info.bpp % 8 # 0
        /\ ~(8 <= src.color_info.bpp /\ src.color_info.bpp <= 32))

SrcHeader ==
    [magic |-> src.magic, version |-> src.version, type |-> src.type,
     record_count |-> src.record_count, texture_count |-> src.texture_count,
     color_info |-> src.color_info]

\* C1: a header with a wrong magic, a wrong version, an invalid type, a texture
\* type whose record and texture counts differ, a record count <= 0, a color
\* mode outside Indexed..RGBA, or a bpp that is neither a multiple of 8 nor in
\* [8,32] makes _read_header fail with ImportError and return no header; every
\* header it returns has record_count > 0, equal to texture_count for textures.
C1_BadHeaderRejected ==
    /\ (HeaderStageOver /\ HeaderBytesComplete /\ SrcHeaderBad)
          => (pc = "raised" /\ err = "ImportError" /\ h = <<>>)
    /\ h # <<>> => /\ h[1].record_count > 0
                   /\ (h[1].type = 2 => h[1].record_count = h[1].texture_count)

C1_Witness ==
    /\ pc = "raised" /\ err = "ImportError" /\ h = <<>>
    /\ src.magic = <<77, 65, 84, 32>> /\ src.version = 50
    /\ src.type = 2 /\ src.record_count = 2 /\ src.texture_count = 1
    /\ src.color_info.color_mode = 0 /\ src.color_info.bpp = 8

\* C2: a header with the right magic and version, type Color or Texture, a
\* positive record count (equal to the texture count for textures), a color mode
\* in Indexed..RGBA and a bpp that is a multiple of 8 or in [8,32] (40 included)
\* is returned by _read_header with every field equal to the encoded value.
C2_ValidHeaderRoundTrips ==
    (HeaderStageOver /\ HeaderBytesComplete /\ ~SrcHeaderBad) => h = <<SrcHeader>>

C2_Witness ==
    /\ pc = "header" /\ h = <<SrcHeader>>
    /\ h[1].color_info.bpp = 40 /\ h[1].type = 0 /\ h[1].texture_count = 2

\* C3 (as stated): every header _read_header returns has 8 <= bpp <= 32 and a
\* color mode in {Indexed, RGB, RGBA}.
C3_BppWithinRange ==
    h # <<>> => /\ 8 <= h[1].color_info.bpp /\ h[1].color_info.bpp <= 32
                /\ h[1].color_info.color_mode \in {0, 1, 2}

\* C3 (amended): every header _read_header returns has a bpp that is a multiple
\* of 8 (0 and 40 included) or lies in [8,32], and a color mode in
\* {Indexed, RGB, RGBA}.
C3_BppMultipleOrWithinRange ==
    h # <<>> => /\ \/ h[1].color_info.bpp % 8 = 0
                   \/ (8 <= h[1].color_info.bpp /\ h[1].color_info.bpp <= 32)
                /\ h[1].color_info.color_mode \in {0, 1, 2}

C3_Witness ==
    /\ h # <<>> /\ h[1].color_info.bpp = 12 /\ h[1].color_info.color_mode = 2

-----------------------------------------------------------------------------
(* Properties of importMat                                                 *)

CallOver == pc \in {"done", "raised"}

\* C4: a read that finds fewer bytes than its layout needs makes the call fail,
\* and every pixel level a mipmap is returned with holds width*height pixels.
C4_TruncationFails ==
    /\ shortRead => pc = "raised"
    /\ mm # <<>> =>
         \A k \in 1..Len(mm[1].pixel_data_array.levels) :
            Len(mm[1].pixel_data_array.levels[k]) = mm[1].width * mm[1].height

\* C5: when importMat has ended, normally or by an exception, the handle it
\* opened is closed.
C5_HandleClosedAtEnd == CallOver => handle = "closed"

\* C6: when importMat ends with ImportError, bpy.data (the material, its node
\* tree, the images and the textures) is what it was when the call started.
C6_AbortLeavesStateUntouched ==
    (pc = "raised" /\ err = "ImportError") => bpy = bpy0

ImageNamed(k) == CHOOSE im \in bpy.images : im.name = k

\* C7: for a Color material whose header and n records were read, with a
\* palette, importMat completes with exactly min(n, 18) textures, the i-th one
\* a 32x32 image filled with the palette colour at records[i].color_index.
C7_ColorTextures ==
    (/\ CallOver /\ h # <<>> /\ h[1].type = 0
     /\ Len(records) = h[1].record_count
     /\ cmp.present /\ cmp.len >= 256)
    => /\ pc = "done"
       /\ Len(bpy.textures) = Min(h[1].record_count, 18)
       /\ \A k \in 1..Len(bpy.textures) :
            /\ bpy.textures[k].name = k - 1
            /\ \E im \in bpy.images : im.name = k - 1
            /\ LET im  == ImageNamed(k - 1)
                   rgb == PaletteColor(cmp, records[k].color_index)
               IN  /\ im.width = 32 /\ im.height = 32
                   /\ im.pixels # <<>>
                   /\ Len(im.pixels[1]) = 32 * 32 * 4
                   /\ \A j \in 0..(32 * 32 - 1) :
                        /\ im.pixels[1][4 * j + 1] = <<rgb[1], 255>>
                        /\ im.pixels[1][4 * j + 2] = <<rgb[2], 255>>
                        /\ im.pixels[1][4 * j + 3] = <<rgb[3], 255>>
                        /\ im.pixels[1][4 * j + 4] = <<255, 255>>

\* Where mipmap k (from 0) starts in a file laid out as the format says: after
\* the records, each mipmap taking 24 + levels * width*height*bpp/8 bytes.
SrcMipmapStart(k) ==
    RecordsEnd(src)
      + k * (24 + src.levels * ((src.w * src.hgt * src.color_info.bpp) \div 8))

\* C8: every _read_mipmap call that returns has read the header of mipmap i at
\* the first byte after mipmap i-1 and has advanced the stream by 24 bytes
\* plus levels * width*height*bpp/8 pixel bytes.
C8_MipmapAdvance ==
    (pc = "mipmap" /\ ~shortRead)
    => /\ mmh[1].start = SrcMipmapStart(i)
       /\ mmh[1].hdr.width = src.w /\ mmh[1].hdr.height = src.hgt
       /\ mmh[1].hdr.levels = src.levels
       /\ pos = SrcMipmapStart(i + 1)

-----------------------------------------------------------------------------
(* 32-bit words as sequences of 32 bits, least significant first           *)

Bits(n, width) == [k \in 1..width |-> (n \div (2 ^ (k - 1))) % 2]

Zeros(n) == [k \in 1..n |-> 0]

\* A little-endian word of 1..4 bytes widened to 32 bits (astype(np.uint32))
WordOfBytes(bs) ==
    Concat([k \in 1..Len(bs) |-> Bits(bs[k], 8)]) \o Zeros(32 - 8 * Len(bs))

WordOfInt(n) == Bits(n, 31) \o <<0>>        \* 0 <= n < 2^31

\* Byte j (0..3) of a word, as uint8
ByteOfWord(w, j) ==
    w[8 * j + 1] + 2 * w[8 * j + 2] + 4 * w[8 * j + 3] + 8 * w[8 * j + 4]
      + 16 * w[8 * j + 5] + 32 * w[8 * j + 6] + 64 * w[8 * j + 7]
      + 128 * w[8 * j + 8]

ShiftR(w, n) == [k \in 1..32 |-> IF k + n <= 32 THEN w[k + n] ELSE 0]
ShiftL(w, n) == [k \in 1..32 |-> IF k - n >= 1 THEN w[k - n] ELSE 0]
BitAnd(a, b) == [k \in 1..32 |-> a[k] * b[k]]
BitOr(a, b)  == [k \in 1..32 |-> IF a[k] + b[k] > 0 THEN 1 ELSE 0]
BitNot(a)    == [k \in 1..32 |-> 1 - a[k]]

RECURSIVE CarryInto(_, _, _, _)
CarryInto(a, b, c0, k) ==
    IF k = 1 THEN c0
    ELSE IF a[k - 1] + b[k - 1] + CarryInto(a, b, c0, k - 1) >= 2 THEN 1 ELSE 0

\* a + b + c0 modulo 2^32
AddWords(a, b, c0) == [k \in 1..32 |-> (a[k] + b[k] + CarryInto(a, b, c0, k)) % 2]

\* a * 255 modulo 2^32, as (a << 8) - a
Times255(a) == AddWords(ShiftL(a, 8), BitNot(a), 1)

\* np.clip(v, 0, 255) of an unsigned word
Clip255(v) ==
    IF \E k \in 9..32 : v[k] = 1 THEN WordOfInt(255) ELSE v

\* _get_color_mask(bpc) = 0xFFFFFFFF >> (32 - bpc), for 0 <= bpc <= 32
_get_color_mask(bpc) == ShiftR([k \in 1..32 |-> 1], 32 - bpc)

-----------------------------------------------------------------------------
(* The pixel-buffer decoders                                               *)

\* flatten(flip(reshape(b, (height, width, 4)), axis=1)): columns reversed
FlipRows_Axis1(b, width, height) ==
    [k \in 1..Len(b) |->
        LET r  == (k - 1) \div (4 * width)
            c  == ((k - 1) % (4 * width)) \div 4
            ch == (k - 1) % 4
        IN  b[r * 4 * width + (width - 1 - c) * 4 + ch + 1]]

\* flatten(flip(reshape(b, (height, width, 4)), axis=0)) of a flat byte array
FlipRows(b, width, height) ==
    [k \in 1..Len(b) |->
        LET r    == (k - 1) \div (4 * width)
            rest == (k - 1) % (4 * width)
        IN  b[(height - 1 - r) * 4 * width + rest + 1]]

\* array * _linear_coef
Normalize(b) == [k \in 1..Len(b) |-> Linear(b[k])]

\* Row k of the palette widened by an alpha column of 255, where the row of
\* the transparent colour got alpha 0 (lines 159-161)
PaletteRow_NoTransparency(c, tc, k) == PaletteColor(c, k) \o <<255>>

PaletteRow(c, tc, k) ==
    PaletteColor(c, k)
      \o <<IF tc # <<>> /\ (IF tc[1] < 0 THEN tc[1] + c.len ELSE tc[1]) = k
           THEN 0 ELSE 255>>

\* _decode_indexed_pixel_data(pd, width, height, cmp, transparent_color)
DecodeIndexed(bytes, width, height, c, tc) ==
    LET raw_img == Concat([k \in 1..Len(bytes) |-> PaletteRow(c, tc, bytes[k])])
    IN  Normalize(FlipRows(raw_img, width, height))

\* np.frombuffer(pd, type) widened to uint32: one word per pixel; for 24 bits a
\* fourth byte of 255 is inserted after every three (lines 179-184)
PixelWords(bytes, cf) ==
    LET size == IF cf.bpp = 8 THEN 1 ELSE IF cf.bpp = 24 THEN 3
                ELSE IF cf.bpp = 16 THEN 2 ELSE 4
    IN  [p \in 1..(Len(bytes) \div size) |->
            LET bs == SubSeq(bytes, (p - 1) * size + 1, p * size)
            IN  WordOfBytes(IF cf.bpp = 24 THEN bs \o <<255>> ELSE bs)]

\* decode_alpha without the clamp of line 191
DecodeAlpha_NoClamp(w, cf) ==
    IF cf.alpha_bpp > 0
    THEN ShiftL(BitAnd(ShiftR(w, cf.alpha_shl), _get_color_mask(cf.alpha_bpp)),
                cf.alpha_shr)
    ELSE WordOfInt(255)

\* decode_alpha(img) for one word (lines 186-192)
DecodeAlpha(w, cf) ==
    IF cf.alpha_bpp > 0
    THEN LET a == ShiftL(BitAnd(ShiftR(w, cf.alpha_shl), _get_color_mask(cf.alpha_bpp)),
                         cf.alpha_shr)
         IN  IF cf.alpha_bpp = 1 THEN Clip255(Times255(a)) ELSE a
    ELSE WordOfInt(255)

\* The composition with red and blue exchanged: B | G<<8 | R<<16 | A<<24
DecodeWord_BGR(w, cf) ==
    LET rm == _get_color_mask(cf.red_bpp)
        gm == _get_color_mask(cf.green_bpp)
        bm == _get_color_mask(cf.blue_bpp)
        r  == ShiftL(ShiftL(BitAnd(ShiftR(w, cf.red_shl), rm), cf.red_shr), 16)
        g  == ShiftL(ShiftL(BitAnd(ShiftR(w, cf.green_shl), gm), cf.green_shr), 8)
        b  == ShiftL(BitAnd(ShiftR(w, cf.blue_shl), bm), cf.blue_shr)
        a  == ShiftL(DecodeAlpha(w, cf), 24)
    IN  BitOr(BitOr(BitOr(r, g), b), a)

\* The word composed of one pixel word (lines 195-202)
DecodeWord(w, cf) ==
    LET rm == _get_color_mask(cf.red_bpp)
        gm == _get_color_mask(cf.green_bpp)
        bm == _get_color_mask(cf.blue_bpp)
        r  == ShiftL(BitAnd(ShiftR(w, cf.red_shl), rm), cf.red_shr)
        g  == ShiftL(ShiftL(BitAnd(ShiftR(w, cf.green_shl), gm), cf.green_shr), 8)
        b  == ShiftL(ShiftL(BitAnd(ShiftR(w, cf.blue_shl), bm), cf.blue_shr), 16)
        a  == ShiftL(DecodeAlpha(w, cf), 24)
    IN  BitOr(BitOr(BitOr(r, g), b), a)

\* raw_img.view(np.uint8): the four bytes of every word, low byte first
WordBytes(ws) ==
    Concat([p \in 1..Len(ws) |->
              <<ByteOfWord(ws[p], 0), ByteOfWord(ws[p], 1),
                ByteOfWord(ws[p], 2), ByteOfWord(ws[p], 3)>>])

\* _decode_rgba_pixel_data(pd, width, height, ci)
DecodeRgba(bytes, width, height, cf) ==
    LET ws      == PixelWords(bytes, cf)
        raw_img == [p \in 1..Len(ws) |-> DecodeWord(ws[p], cf)]
    IN  Normalize(FlipRows(WordBytes(raw_img), width, height))

-----------------------------------------------------------------------------
(* The decoders run on buffers: specification SpecDecode                   *)

F8888 == ColorFormat(<<ColorMode_RGBA, 32, 8, 8, 8, 0, 8, 16, 0, 0, 0, 8, 24, 0>>)
F4444 == ColorFormat(<<ColorMode_RGBA, 16, 4, 4, 4, 12, 8, 4, 4, 4, 4, 4, 0, 4>>)
F1555 == ColorFormat(<<ColorMode_RGBA, 16, 5, 5, 5, 10, 5, 0, 3, 3, 3, 1, 15, 7>>)
F5551 == ColorFormat(<<ColorMode_RGBA, 16, 5, 5, 5, 11, 6, 1, 3, 3, 3, 1, 0, 0>>)
F565  == ColorFormat(<<ColorMode_RGB, 16, 5, 6, 5, 11, 5, 0, 3, 2, 3, 0, 0, 0>>)
F888  == ColorFormat(<<ColorMode_RGB, 24, 8, 8, 8, 0, 8, 16, 0, 0, 0, 0, 0, 0>>)
F332  == ColorFormat(<<ColorMode_RGB, 8, 3, 3, 2, 5, 2, 0, 5, 5, 6, 0, 0, 0>>)

\* 5/5/5 colours below a one-bit alpha taken at bit shl and moved up by shr
FAlphaBit(bpp, shl, shr) ==
    ColorFormat(<<ColorMode_RGBA, bpp, 5, 5, 5, 10, 5, 0, 3, 3, 3, 1, shl, shr>>)

AlphaBitFormats ==
    {FAlphaBit(bpp, shl, shr) : bpp \in {16, 32}, shl \in {0, 7, 15, 31},
                                shr \in {0, 7, 31}}

\* F1555 with blue moved up by 4: its fifth bit lands in bit 24 of the
\* composed word
F1555_Blue9 ==
    ColorFormat(<<ColorMode_RGBA, 16, 5, 5, 5, 10, 5, 0, 3, 3, 4, 1, 15, 7>>)

DecodeFormats ==
    {F8888, F4444, F1555, F5551, F565, F888, F332, F1555_Blue9} \cup AlphaBitFormats

\* The pixel words the input buffers are made of (bytes, low byte first)
SampleWords ==
    << <<0, 0, 0, 0>>, <<1, 128, 0, 1>>, <<17, 136, 204, 255>>,
       <<255, 255, 255, 255>>, <<52, 18, 128, 127>>, <<254, 127, 85, 170>> >>

\* A buffer of n pixels of size bytes each, cycling through the samples
InputBuffer(seed, n, size) ==
    Concat([p \in 1..n |->
              SubSeq(SampleWords[((seed + p - 1) % Len(SampleWords)) + 1], 1, size)])

DecodeCmps == {[present |-> TRUE, len |-> n, seed |-> sd] :
                  n \in {256, 257}, sd \in {0, 1}}

InitDecode(mode, w, hgt, cf, bytes, c, tc) ==
    /\ pc = mode
    /\ dim = <<w, hgt>> /\ ci = cf /\ pd = bytes /\ cmp = c /\ tcol = tc
    /\ out = <<>> /\ err = ""
    /\ src = Desc(file_magic, required_version, MatType_Texture, 1, 1,
                  cf.color_mode, cf.bpp, cf.alpha_bpp, w, hgt, 1, 0)
    /\ file = <<>> /\ handle = "none" /\ pos = 0
    /\ h = <<>> /\ records = <<>> /\ i = 0 /\ mm = <<>> /\ mmh = <<>>
    /\ shortRead = FALSE /\ bpy = EmptyBpy /\ bpy0 = EmptyBpy

\* _get_pixel_data_size(width, height, bpp) = int(abs(width * height) * (bpp / 8))
_get_pixel_data_size(width, height, bpp) ==
    ((IF width * height < 0 THEN -(width * height) ELSE width * height) * bpp) \div 8

\* The formats _read_pixel_data is called with: indexed of 8 and 16 bits, 8
\* bits that are not indexed, and packed ones of 16 and 32 bits
ReadFormats ==
    {CfFor(ColorMode_Indexed, 8, 0), CfFor(ColorMode_Indexed, 16, 0), F332, F565, F8888}

\* A stream of n bytes
StreamOf(seed, n) == InputBuffer(seed, n, 1)

\* The lengths of the stream: empty, one byte short of the pixel block, the
\* pixel block, and one byte more
StreamLens(size) == {n \in {0, size - 1, size, size + 1} : n >= 0}

InitRead(w, hgt, cf, stream, c, tc) ==
    /\ pc = "read_in"
    /\ dim = <<w, hgt>> /\ ci = cf /\ pd = <<>> /\ cmp = c /\ tcol = tc
    /\ out = <<>> /\ err = ""
    /\ src = Desc(file_magic, required_version, MatType_Texture, 1, 1,
                  cf.color_mode, cf.bpp, cf.alpha_bpp, w, hgt, 1, 0)
    /\ file = stream /\ handle = "open" /\ pos = 0
    /\ h = <<>> /\ records = <<>> /\ i = 0 /\ mm = <<>> /\ mmh = <<>>
    /\ shortRead = FALSE /\ bpy = EmptyBpy /\ bpy0 = EmptyBpy

\* The sizes _read_pixel_data is called with.  Zero and negative ones are drawn
\* for the calls that shape no array from them: indexed calls without palette.
ReadDims(cf, c) ==
    IF (cf.color_mode = ColorMode_Indexed \/ cf.bpp = 8) /\ ~c.present
    THEN (-1)..MaxDim ELSE 1..MaxDim

\* Buffers of width*height pixels, and buffers one pixel short of that; streams
\* that hold the pixel block, less, or more
InitD ==
    \/ \E cf \in ReadFormats, seed \in 0..1, tc \in {<<>>, <<1>>},
          c \in {NoCmp, [present |-> TRUE, len |-> 256, seed |-> 0]} :
         \E w \in ReadDims(cf, c), hgt \in ReadDims(cf, c) :
            \E n \in StreamLens(_get_pixel_data_size(w, hgt, cf.bpp)) :
               InitRead(w, hgt, cf, StreamOf(seed, n), c, tc)
    \/ \E w \in 1..MaxDim, hgt \in 1..MaxDim, seed \in 0..(Len(SampleWords) - 1),
          missing \in 0..1 :
           \/ \E c \in DecodeCmps, tc \in {<<>>, <<0>>, <<1>>, <<17>>, <<255>>} :
                InitDecode("indexed_in", w, hgt, F332,
                           InputBuffer(seed, w * hgt - missing, 1), c, tc)
           \/ \E cf \in DecodeFormats :
                InitDecode("rgba_in", w, hgt, cf,
                           InputBuffer(seed, w * hgt - missing, cf.bpp \div 8),
                           NoCmp, <<>>)

\* A call of _decode_indexed_pixel_data; reshape raises when the buffer does
\* not hold height*width pixels
DecodeIndexedCall ==
    /\ pc = "indexed_in"
    /\ IF Len(pd) # dim[1] * dim[2]
       THEN Raise("ValueError") /\ out' = out
       ELSE /\ out' = <<DecodeIndexed(pd, dim[1], dim[2], cmp, tcol)>>
            /\ pc' = "indexed_out" /\ err' = err
    /\ UNCHANGED <<pd, dim, ci, tcol, cmp>>
    /\ UNCHANGED importVars

\* A call of _decode_rgba_pixel_data
DecodeRgbaCall ==
    /\ pc = "rgba_in"
    /\ IF Len(PixelWords(pd, ci)) # dim[1] * dim[2]
       THEN Raise("ValueError") /\ out' = out
       ELSE /\ out' = <<DecodeRgba(pd, dim[1], dim[2], ci)>>
            /\ pc' = "rgba_out" /\ err' = err
    /\ UNCHANGED <<pd, dim, ci, tcol, cmp>>
    /\ UNCHANGED importVars

\* _read_pixel_data once the palette check is left out: the palette of a
\* missing ColorMap is asked for
ReadPixelData_NoPaletteCheck(bytes, width, height, cf, c, tc) ==
    IF cf.color_mode = ColorMode_Indexed \/ cf.bpp = 8
    THEN IF ~c.present THEN [err |-> "AttributeError", result |-> <<>>]
         ELSE IF Len(bytes) # width * height
              THEN [err |-> "ValueError", result |-> <<>>]
              ELSE [err |-> "", result |-> <<DecodeIndexed(bytes, width, height, c, tc)>>]
    ELSE IF Len(PixelWords(bytes, cf)) # width * height
         THEN [err |-> "ValueError", result |-> <<>>]
         ELSE [err |-> "", result |-> <<DecodeRgba(bytes, width, height, cf)>>]

\* _read_pixel_data after the read (lines 213-220): the exception raised, or
\* the value returned; an empty list when an indexed buffer has no palette
ReadPixelData(bytes, width, height, cf, c, tc) ==
    IF cf.color_mode = ColorMode_Indexed \/ cf.bpp = 8
    THEN IF ~c.present THEN [err |-> "", result |-> << <<>> >>]
         ELSE IF Len(bytes) # width * height
              THEN [err |-> "ValueError", result |-> <<>>]
              ELSE [err |-> "", result |-> <<DecodeIndexed(bytes, width, height, c, tc)>>]
    ELSE IF Len(PixelWords(bytes, cf)) # width * height
         THEN [err |-> "ValueError", result |-> <<>>]
         ELSE [err |-> "", result |-> <<DecodeRgba(bytes, width, height, cf)>>]

\* A call of _read_pixel_data on the open stream: pd_size bytes are read, or
\* what is left of the stream
ReadPixelDataCall ==
    /\ pc = "read_in"
    /\ LET got == Read(pos, _get_pixel_data_size(dim[1], dim[2], ci.bpp))
           res == ReadPixelData(got, dim[1], dim[2], ci, cmp, tcol)
       IN  /\ pd' = got
           /\ pos' = pos + Len(got)
           /\ IF res.err # ""
              THEN Raise(res.err) /\ out' = out
              ELSE pc' = "read_out" /\ err' = err /\ out' = res.result
    /\ UNCHANGED <<dim, ci, tcol, cmp>>
    /\ UNCHANGED <<file, src, handle, h, records, i, mm, mmh, shortRead, bpy, bpy0>>

NextDecode == DecodeIndexedCall \/ DecodeRgbaCall \/ ReadPixelDataCall

SpecDecode == InitD /\ [][NextDecode]_vars

-----------------------------------------------------------------------------
(* Properties of the decoders                                              *)

\* Output pixel (r, c), rows and columns from 0: its four floats
OutPixel(r, c) ==
    LET base == (r * dim[1] + c) * 4
    IN  <<out[1][base + 1], out[1][base + 2], out[1][base + 3], out[1][base + 4]>>

\* The index byte of input pixel (r, c)
InIndex(r, c) == pd[r * dim[1] + c + 1]

\* C9: the indexed decoder returns width*height pixels; each has the colour
\* palette[index]/255 of its source index (the pixel of the same column in the
\* mirrored row), and alpha 0.0 exactly when a transparent index was given and
\* equals that index, 1.0 otherwise.
C9_IndexedDecode ==
    pc = "indexed_out" =>
      /\ Len(out[1]) = 4 * dim[1] * dim[2]
      /\ \A r \in 0..(dim[2] - 1), c \in 0..(dim[1] - 1) :
            LET idx == InIndex(dim[2] - 1 - r, c)
                rgb == PaletteColor(cmp, idx)
                px  == OutPixel(r, c)
            IN  /\ px[1] = <<rgb[1], 255>>
                /\ px[2] = <<rgb[2], 255>>
                /\ px[3] = <<rgb[3], 255>>
                /\ (px[4] = <<0, 255>>) <=> (tcol # <<>> /\ idx = tcol[1])
                /\ px[4] # <<0, 255>> => px[4] = <<255, 255>>

\* The 2x1 index buffer [0,1] with transparent colour 1
C9_Witness ==
    /\ pc = "indexed_out" /\ dim = <<2, 1>> /\ pd = <<0, 1>> /\ tcol = <<1>>
    /\ cmp.seed = 0
    /\ OutPixel(0, 0) = << <<255, 255>>, <<0, 255>>, <<0, 255>>, <<255, 255>> >>
    /\ OutPixel(0, 1)[4] = <<0, 255>>

\* The decoding of input pixel (r, c) taken alone: its four bytes R, G, B, A
PixelDecoded(r, c) ==
    IF pc = "indexed_out"
    THEN PaletteRow(cmp, tcol, InIndex(r, c))
    ELSE LET size == ci.bpp \div 8
             p    == r * dim[1] + c
             bs   == SubSeq(pd, p * size + 1, (p + 1) * size)
             w    == DecodeWord(WordOfBytes(IF ci.bpp = 24 THEN bs \o <<255>> ELSE bs),
                                ci)
         IN  <<ByteOfWord(w, 0), ByteOfWord(w, 1), ByteOfWord(w, 2), ByteOfWord(w, 3)>>

\* The rows of a flat float array of height rows, last row first
RowsReversed(a, width, height) ==
    Concat([r \in 1..height |->
              SubSeq(a, (height - r) * 4 * width + 1, (height - r + 1) * 4 * width)])

\* C10: both decoders reverse the row order and nothing else: output pixel
\* (r, c) is the decoding of input pixel (height-1-r, c), channels in the order
\* R, G, B, A, and reversing the rows of the output again gives the pixels in
\* input order.
C10_RowsReversedOnly ==
    pc \in {"indexed_out", "rgba_out"} =>
      /\ \A r \in 0..(dim[2] - 1), c \in 0..(dim[1] - 1) :
            LET d == PixelDecoded(dim[2] - 1 - r, c)
            IN  OutPixel(r, c) = <<Linear(d[1]), Linear(d[2]), Linear(d[3]), Linear(d[4])>>
      /\ LET back == RowsReversed(out[1], dim[1], dim[2])
         IN  \A r \in 0..(dim[2] - 1), c \in 0..(dim[1] - 1), ch \in 1..4 :
                back[(r * dim[1] + c) * 4 + ch] = Linear(PixelDecoded(r, c)[ch])

\* A two-row, two-column rgba buffer whose rows differ and whose columns differ
C10_Witness ==
    /\ pc = "rgba_out" /\ dim = <<2, 2>> /\ ci.bpp = 16
    /\ OutPixel(0, 0) # OutPixel(1, 0)
    /\ OutPixel(0, 0) # OutPixel(0, 1)
    /\ OutPixel(0, 0) = [k \in 1..4 |-> Linear(PixelDecoded(1, 0)[k])]

-----------------------------------------------------------------------------
(* Properties of the packed decoder                                        *)

\* mask(n) = 2^n - 1 as a word
Mask(n) == [k \in 1..32 |-> IF k <= n THEN 1 ELSE 0]

\* ((W >> shl) & mask(bits)) << shr
ChannelValue(w, shl, bits, shr) == ShiftL(BitAnd(ShiftR(w, shl), Mask(bits)), shr)

\* The word of input pixel (r, c), widened to 32 bits
InWord(r, c) == PixelWords(pd, ci)[r * dim[1] + c + 1]

RedValue(w, cf)   == ChannelValue(w, cf.red_shl, cf.red_bpp, cf.red_shr)
GreenValue(w, cf) == ChannelValue(w, cf.green_shl, cf.green_bpp, cf.green_shr)
BlueValue(w, cf)  == ChannelValue(w, cf.blue_shl, cf.blue_bpp, cf.blue_shr)
AlphaValue(w, cf) == ChannelValue(w, cf.alpha_shl, cf.alpha_bpp, cf.alpha_shr)

\* R | G<<8 | B<<16 | A<<24
Composed(r, g, b, a) ==
    BitOr(BitOr(BitOr(r, ShiftL(g, 8)), ShiftL(b, 16)), ShiftL(a, 24))

\* The four bytes of a word, low byte first, each divided by 255
WordChannels(w) ==
    <<Linear(ByteOfWord(w, 0)), Linear(ByteOfWord(w, 1)),
      Linear(ByteOfWord(w, 2)), Linear(ByteOfWord(w, 3))>>

\* The bytes of input pixel (r, c) of a 32-bit buffer
InBytes(r, c) == SubSeq(pd, 4 * (r * dim[1] + c) + 1, 4 * (r * dim[1] + c) + 4)

\* C11 (as stated): every output pixel holds the four bytes, each divided by
\* 255, of R | G<<8 | B<<16 | A<<24, where each of R, G, B and A is
\* ((W >> shl) & mask(bits)) << shr of its channel.
C11_EveryChannelShifted ==
    pc = "rgba_out" =>
      \A r \in 0..(dim[2] - 1), c \in 0..(dim[1] - 1) :
        LET w == InWord(dim[2] - 1 - r, c)
        IN  OutPixel(r, c) =
              WordChannels(Composed(RedValue(w, ci), GreenValue(w, ci),
                                    BlueValue(w, ci), AlphaValue(w, ci)))

\* The alpha the decoder composes: 255 without alpha bits, 0 or 255 for one
\* alpha bit (255 when the shifted value is not 0), the shifted value otherwise
AlphaRule(w, cf) ==
    IF cf.alpha_bpp = 0 THEN WordOfInt(255)
    ELSE IF cf.alpha_bpp = 1
         THEN IF AlphaValue(w, cf) = Zeros(32) THEN Zeros(32) ELSE WordOfInt(255)
         ELSE AlphaValue(w, cf)

\* C11 (amended): every output pixel holds the four bytes, each divided by 255,
\* of R | G<<8 | B<<16 | A<<24, where R, G and B are
\* ((W >> shl) & mask(bits)) << shr of their channel and A is that value for
\* two alpha bits or more, 255 without alpha bits, and 0 or 255 for one alpha
\* bit; for 32 bits with 8/8/8/8 at the byte positions the four channels are
\* the four bytes of the input word, each divided by 255.
C11_ColourShiftedAlphaRuled ==
    pc = "rgba_out" =>
      \A r \in 0..(dim[2] - 1), c \in 0..(dim[1] - 1) :
        LET w == InWord(dim[2] - 1 - r, c)
        IN  /\ OutPixel(r, c) =
                 WordChannels(Composed(RedValue(w, ci), GreenValue(w, ci),
                                       BlueValue(w, ci), AlphaRule(w, ci)))
            /\ ci = F8888 =>
                 OutPixel(r, c) = [k \in 1..4 |-> Linear(InBytes(dim[2] - 1 - r, c)[k])]

\* The word 0xFFCC8811 decoded as 8/8/8/8
C11_Witness ==
    /\ pc = "rgba_out" /\ dim = <<2, 1>>
    /\ ci = F8888 /\ pd = <<17, 136, 204, 255, 255, 255, 255, 255>>
    /\ OutPixel(0, 0) = << <<17, 255>>, <<136, 255>>, <<204, 255>>, <<255, 255>> >>

\* The alpha bit of input pixel (r, c): bit alpha_shl of its word
AlphaBitSet(r, c) == InWord(r, c)[ci.alpha_shl + 1] = 1

\* The alpha of every output pixel is 1.0 or 0.0 as the alpha bit of its input
\* pixel is set or clear (one alpha bit), and 1.0 without alpha bits
AlphaIsBinary ==
    \A r \in 0..(dim[2] - 1), c \in 0..(dim[1] - 1) :
        /\ ci.alpha_bpp = 1 =>
             OutPixel(r, c)[4] = IF AlphaBitSet(dim[2] - 1 - r, c)
                                 THEN <<255, 255>> ELSE <<0, 255>>
        /\ ci.alpha_bpp = 0 => OutPixel(r, c)[4] = <<255, 255>>

\* C12 (as stated): for every format with one alpha bit, whatever alpha_shl and
\* alpha_shr, the decoded alpha is exactly 1.0 when the alpha bit of the pixel
\* is set and exactly 0.0 when it is clear; for every format without alpha bits
\* it is 1.0 for every pixel.
C12_AlphaBinaryEveryFormat == pc = "rgba_out" => AlphaIsBinary

\* No colour channel reaches bit 24 of the composed word
ColoursBelowAlpha(cf) ==
    /\ cf.red_bpp + cf.red_shr <= 24
    /\ cf.green_bpp + cf.green_shr <= 16
    /\ cf.blue_bpp + cf.blue_shr <= 8

\* C12 (amended): for every format with one alpha bit whose colour channels
\* stay below bit 24 of the composed word, whatever alpha_shl and alpha_shr,
\* the decoded alpha is exactly 1.0 when the alpha bit of the pixel is set and
\* exactly 0.0 when it is clear; for every format without alpha bits it is 1.0
\* for every pixel.
C12_AlphaBinary ==
    (pc = "rgba_out" /\ (ci.alpha_bpp = 1 => ColoursBelowAlpha(ci))) => AlphaIsBinary

\* Two pixels whose alpha is bit 7, moved up by 31: one opaque, one transparent
C12_Witness ==
    /\ pc = "rgba_out" /\ dim = <<2, 1>>
    /\ ci.alpha_bpp = 1 /\ ci.alpha_shl = 7 /\ ci.alpha_shr = 31
    /\ ColoursBelowAlpha(ci)
    /\ AlphaBitSet(0, 0) /\ ~AlphaBitSet(0, 1)
    /\ OutPixel(0, 0)[4] = <<255, 255>>
    /\ OutPixel(0, 1)[4] = <<0, 255>>

-----------------------------------------------------------------------------
(* Properties of _read_pixel_data                                          *)

\* A call of _read_pixel_data has ended
ReadCallOver == handle = "open" /\ pc \in {"read_out", "raised"}

\* C13: a call of _read_pixel_data for an indexed format (color_mode Indexed, or
\* 8 bits per pixel) without palette raises nothing and returns an empty pixel
\* list, whatever the width, the height and the stream hold.
C13_NoPaletteReturnsEmpty ==
    (ReadCallOver /\ (ci.color_mode = 0 \/ ci.bpp = 8) /\ ~cmp.present)
    => (pc = "read_out" /\ err = "" /\ out = << <<>> >>)

\* An 8-bit RGB buffer of width -1 and height 2 read from a stream of 3 bytes
C13_Witness ==
    /\ ReadCallOver /\ ~cmp.present
    /\ ci.color_mode = 1 /\ ci.bpp = 8 /\ dim = <<-1, 2>>
    /\ Len(file) = 3 /\ pos = 2 /\ Len(pd) = 2
    /\ pc = "read_out" /\ out = << <<>> >>

-----------------------------------------------------------------------------
(* Properties of importMat without palette, and of its texture slots        *)

\* The file holds every byte of what it was encoded from, and its header is one
\* that _read_header accepts
SrcFileValid == ~SrcHeaderBad /\ Len(file) = Len(EncodeFile(src))

\* Slot k (from 0) holds a placeholder of the given size: an image without
\* pixel buffer
IsPlaceholder(k, width, height) ==
    /\ bpy.textures[k + 1].image = k
    /\ \E im \in bpy.images : im.name = k
    /\ LET im == ImageNamed(k)
       IN  /\ im.pixels = <<>> /\ im.generated_type = "UV_GRID"
           /\ im.width = width /\ im.height = height

SrcFirstLevel(k) ==
    SubSeq(MipmapsOf(src)[k + 1].px, 1,
           LevelBytes(src.w, src.hgt, src.color_info.bpp))

\* C15: for a Texture material in RGB or RGBA color mode (16, 24 or 32 bits per
\* pixel) whose file holds every pixel block, each slot emitted holds a pixel
\* buffer: the first level of its mipmap, width*height pixels decoded by the
\* packed decoder.
C15_PackedTexturesDecoded ==
    (/\ pc \in {"texture", "mipmap", "done"} /\ SrcFileValid
     /\ src.type = 2 /\ src.color_info.color_mode \in {1, 2}
     /\ src.color_info.bpp \in {16, 24, 32} /\ src.levels >= 1)
    => \A k \in 0..(Len(bpy.textures) - 1) :
          /\ \E im \in bpy.images : im.name = k
          /\ ImageNamed(k).pixels # <<>>
          /\ ImageNamed(k).pixels[1] =
                DecodeRgba(SrcFirstLevel(k), src.w, src.hgt, src.color_info)

\* The header of a mipmap has been read from an indexed material of 8 bits
IndexedMipmapRead ==
    /\ mmh # <<>> /\ h # <<>>
    /\ h[1].color_info.color_mode = 0 /\ h[1].color_info.bpp = 8
    /\ pc \in {"mipmap", "raised"} /\ err # "struct.error"

\* Pixel j (from 1) of level k (from 1) of the mipmap whose header is mmh, by
\* palette lookup of the index byte stored at its place in the file
StoredPixel(k, j) ==
    LET wh  == mmh[1].hdr.width * mmh[1].hdr.height
        idx == file[mmh[1].start + 24 + (k - 1) * wh + j]
        rgb == PaletteColor(cmp, idx)
    IN  Pixel(<<rgb[1], 255>>, <<rgb[2], 255>>, <<rgb[3], 255>>, <<255, 255>>)

\* C16: _read_mipmap in Indexed color mode fails with ImportError when the
\* palette is missing or has fewer than 256 entries, the stream standing right
\* after the mipmap header; with a palette of 256 entries or more it returns
\* exactly `levels` pixel levels in file order, each of width*height pixels,
\* pixel j of a level being the palette colour of index byte j of that level.
C16_IndexedMipmap ==
    IndexedMipmapRead =>
      IF ~cmp.present \/ cmp.len < 256
      THEN /\ pc = "raised" /\ err = "ImportError"
           /\ pos = mmh[1].start + 24
      ELSE /\ pc = "mipmap"
           /\ ~mm[1].pixel_data_array.isNone
           /\ Len(mm[1].pixel_data_array.levels) = mmh[1].hdr.levels
           /\ \A k \in 1..Len(mm[1].pixel_data_array.levels) :
                LET level == mm[1].pixel_data_array.levels[k]
                IN  /\ Len(level) = mmh[1].hdr.width * mmh[1].hdr.height
                    /\ \A j \in 1..Len(level) : level[j] = StoredPixel(k, j)

\* C17: every texture slot importMat emits, for a Color material as for a
\* Texture material, carries the transparency flag alpha_bpp > 0 of the header.
C17_TransparencyFlag ==
    (pc \in {"color", "texture", "mipmap", "done"} /\ h # <<>>)
    => \A k \in 1..Len(bpy.textures) :
          bpy.textures[k].use_preview_alpha = (h[1].color_info.alpha_bpp > 0)

=============================================================================
